---- MODULE Spec2Model ----
(***************************************************************************)
(* Model of package form (src/form.go): the Form descriptor, its           *)
(* registration calls (SkipField, Select, the Prefix field), the           *)
(* presentation loops of Render and RenderField, and                       *)
(* ValidationError.Error.                                                  *)
(*                                                                         *)
(* src/form.go holds two copies of the package.  The first copy (lines     *)
(* 1-438) attaches validation messages to field.Errors; the second copy    *)
(* (lines 440-839) binds a template function "errors" before executing     *)
(* the template.  Spec is the first copy, Spec2 the second copy, SpecErr   *)
(* applies ValidationError.Error to inputs drawn in its initial state, and *)
(* SpecValidate calls Form.Validate, which is the same in both copies.     *)
(*                                                                         *)
(* Strings that the code indexes or searches (field names, skip entries,   *)
(* the prefix, ValidationError.Type) are sequences of symbols; a symbol    *)
(* is a one-character string or a name segment that no other symbol or     *)
(* concatenation of symbols of the model contains.  "." is always a        *)
(* symbol of its own.  Other strings are TLA+ strings.                     *)
(***************************************************************************)
EXTENDS Integers, Sequences, FiniteSets, TLC

VARIABLES
    Tpl,          \* Form.Tpl: the template body loaded by New
    tplFuncs,     \* the function set of Form.Tpl: the binding of "errors"
    Skip,         \* Form.Skip
    selectMap,    \* Form.selectMap (the nil map is the empty function)
    Prefix,       \* Form.Prefix
    ret,          \* the most recent call on the form and what it returned
    skipCalls,    \* history: every argument passed to SkipField, in call order
    selectCalls,  \* history: for each name, the map of the latest Select call
    ve,           \* SpecErr: the ValidationError Error is applied to
    msg           \* SpecErr: what Error returned for ve

vars == <<Tpl, tplFuncs, Skip, selectMap, Prefix, ret, skipCalls, selectCalls, ve, msg>>

\* Bound on len(Form.Skip): SkipField is not called on a list this long.
MaxSkip == 2

(***************************************************************************)
(* Strings                                                                 *)
(***************************************************************************)

\* strings.Contains(s, substr)
Contains(s, substr) ==
    \E i \in 0..(Len(s) - Len(substr)) : SubSeq(s, i + 1, i + Len(substr)) = substr

\* s starts with prefix (strings.HasPrefix), as the properties use it
HasPrefix(s, prefix) ==
    /\ Len(prefix) <= Len(s)
    /\ SubSeq(s, 1, Len(prefix)) = prefix

\* The TLA+ string a sequence of symbols spells.
RECURSIVE Flat(_)
Flat(s) == IF s = <<>> THEN "" ELSE Head(s) \o Flat(Tail(s))

(***************************************************************************)
(* Inputs                                                                  *)
(***************************************************************************)

Email == <<"Email">>
EmailConfirm == <<"Email", "Confirm">>
State == <<"State">>
AddressStreet1 == <<"Address", ".", "Street1">>
BillingAddressStreet1 == <<"Billing", "Address", ".", "Street1">>
HomeAddressStreet1 == <<"Home", ".", "Address", ".", "Street1">>
Zip == <<"Zip">>
AddressDot == <<"Address", ".">>

\* The arguments SkipField is called with.
SkipEntries == {AddressDot, Email, <<>>}

\* The values Form.Prefix is set to.
Prefixes == {<<>>, <<"acct_">>}

\* The names Select is called with.
SelectNames == {State, Email}

ByCode == ("CA" :> "California") @@ ("NY" :> "New York")
ByLabel == ("California" :> "CA") @@ ("New York" :> "NY")
TwoLabels == ("California" :> "CA") @@ ("Calif." :> "CA")

\* The maps Select is called with.
SelectMaps == {ByCode, ByLabel, TwoLabels}

\* The field_name arguments of RenderField.
FieldNameArgs == {State, Email, AddressStreet1, Zip}

\* The records Render is called with.
Records == {"customer", "signup"}

\* A field as fields(v) returns it: Items, SelectValue, Errors and Prefix unset.
NewField(name, id, type, value) ==
    [Name |-> name, ID |-> id, Type |-> type, Value |-> value,
     Items |-> <<>>, SelectValue |-> "", Errors |-> <<>>, Prefix |-> <<>>]

\* fields(v): one field per leaf member, in declaration order, nested leaves
\* named by their dotted path.
fields(v) ==
    IF v = "customer"
    THEN << NewField(Email, <<"email">>, "email", ""),
            NewField(State, <<"state">>, "select", "CA"),
            NewField(AddressStreet1, <<"address_street1">>, "text", "1 Main St"),
            NewField(BillingAddressStreet1, <<"billing_street1">>, "text", ""),
            NewField(HomeAddressStreet1, <<"home_street1">>, "text", "") >>
    ELSE << NewField(State, <<"state">>, "checkbox", "NY"),
            NewField(Email, <<"email">>, "text", "CA"),
            NewField(EmailConfirm, <<"email_confirm">>, "text", "") >>

\* A ValidationError value.  Param is an interface{}: the nil interface or a
\* string.
NilParam == [isNil |-> TRUE, s |-> ""]
StrParam(s) == [isNil |-> FALSE, s |-> s]
VErr(field, type, override, param) ==
    [Field |-> field, Type |-> type, Override |-> override, Param |-> param]

TypeEmail == <<"e", "m", "a", "i", "l">>
TypeAlpha == <<"a", "l", "p", "h", "a">>
TypeLen == <<"l", "e", "n">>
TypeRequired == <<"r", "e", "q", "u", "i", "r", "e", "d">>
TypeNotBlank == <<"n", "o", "t", " ", "b", "l", "a", "n", "k">>
TypeE164 == <<"e", "1", "6", "4">>

EmailInvalid == VErr(Email, TypeEmail, "", StrParam(""))
EmailRequired == VErr(Email, TypeRequired, "", StrParam(""))
GhostAlpha == VErr(<<"Ghost">>, TypeAlpha, "", StrParam(""))
StateLen == VErr(State, TypeLen, "", StrParam("2"))
StateOverride == VErr(State, TypeEmail, "Pick a state", NilParam)

\* The error lists Render is called with (no list and the empty list behave alike).
ErrLists == { <<>>, <<EmailInvalid>>,
              <<StateLen, EmailInvalid, GhostAlpha, StateOverride, EmailRequired>> }

(***************************************************************************)
(* ValidationError.Error                                                   *)
(***************************************************************************)

\* unicode.ToUpper on the symbols of the model
ToUpper(c) ==
    CASE c = "a" -> "A" [] c = "b" -> "B" [] c = "e" -> "E" [] c = "h" -> "H"
      [] c = "i" -> "I" [] c = "k" -> "K" [] c = "l" -> "L" [] c = "m" -> "M"
      [] c = "n" -> "N" [] c = "o" -> "O" [] c = "p" -> "P" [] c = "q" -> "Q"
      [] c = "r" -> "R" [] c = "t" -> "T" [] c = "u" -> "U" [] OTHER -> c

\* strings.isSeparator: letters, digits and underscore separate nothing; of the
\* symbols of the model only the space does.
isSeparator(c) == c = " "

\* strings.Title(s): the first letter of every word mapped to its upper case.
RECURSIVE TitleFrom(_, _)
TitleFrom(s, prev) ==
    IF s = <<>> THEN <<>>
    ELSE << IF isSeparator(prev) THEN ToUpper(Head(s)) ELSE Head(s) >>
            \o TitleFrom(Tail(s), Head(s))

Title(s) == TitleFrom(s, " ")

\* fmt.Sprintf("%s", param) for an interface{} holding a string or nil
SprintS(param) == IF param.isNil THEN "%!s(<nil>)" ELSE param.s

\* Error with the switch on Type taken before the Override check.
ErrorSwitchFirst(v) ==
    CASE v.Type = TypeEmail -> "Invalid Email"
      [] v.Type = TypeLen -> "Invalid Length,needs: " \o SprintS(v.Param)
      [] v.Type = TypeAlpha -> "Letters Only"
      [] OTHER -> IF Len(v.Override) > 0 THEN v.Override ELSE Flat(Title(v.Type))

\* (v *ValidationError) Error()
Error(v) ==
    IF Len(v.Override) > 0 THEN v.Override
    ELSE CASE v.Type = TypeEmail -> "Invalid Email"
           [] v.Type = TypeLen -> "Invalid Length,needs: " \o SprintS(v.Param)
           [] v.Type = TypeAlpha -> "Letters Only"
           [] OTHER -> Flat(Title(v.Type))

(***************************************************************************)
(* The presentation steps of Render and RenderField                        *)
(***************************************************************************)

\* The skip loop with strings.HasPrefix in place of strings.Contains.
RECURSIVE SkipScanHasPrefix(_, _, _)
SkipScanHasPrefix(skip, i, name) ==
    IF i > Len(skip) THEN "keep"
    ELSE LET sv == skip[i] IN
         IF sv = name THEN "dump"
         ELSE IF Len(sv) = 0 THEN "panic"
         ELSE IF sv[Len(sv)] = "." /\ HasPrefix(name, sv) THEN "dump"
         ELSE SkipScanHasPrefix(skip, i + 1, name)

\* The skip loop: "dump" when an entry matches, "keep" when none does, "panic"
\* when sv[len(sv)-1:] is evaluated on an empty entry (slice bounds out of range).
RECURSIVE SkipScan(_, _, _)
SkipScan(skip, i, name) ==
    IF i > Len(skip) THEN "keep"
    ELSE LET sv == skip[i] IN
         IF sv = name THEN "dump"
         ELSE IF Len(sv) = 0 THEN "panic"
         ELSE IF sv[Len(sv)] = "." /\ Contains(name, sv) THEN "dump"
         ELSE SkipScan(skip, i + 1, name)

\* The prefix written into Name and ID before the skip, select and error steps.
WithPrefixRenamed(field, prefix) ==
    [field EXCEPT !.Prefix = prefix, !.Name = prefix \o @, !.ID = prefix \o @]

\* field.Prefix = f.Prefix
WithPrefix(field, prefix) == [field EXCEPT !.Prefix = prefix]

\* The select block comparing the map's key, not its value, with field.Value.
SelectOutcomesByKey(field, smap) ==
    IF field.Type = "select" \/ field.Type = "checkbox"
    THEN IF field.Name \in DOMAIN smap
         THEN LET it == smap[field.Name]
                  hits == {l \in DOMAIN it : l = field.Value}
              IN  IF hits = {}
                  THEN {[field EXCEPT !.Items = it]}
                  ELSE {[field EXCEPT !.Items = it, !.SelectValue = it[l]] : l \in hits}
         ELSE {field}
    ELSE {field}

\* The select block without the test of field.Type.
SelectOutcomesAnyType(field, smap) ==
    IF field.Name \in DOMAIN smap
    THEN LET it == smap[field.Name]
             hits == {l \in DOMAIN it : it[l] = field.Value}
         IN  IF hits = {}
             THEN {[field EXCEPT !.Items = it]}
             ELSE {[field EXCEPT !.Items = it, !.SelectValue = l] : l \in hits}
    ELSE {field}

\* The select block.  The range over the map visits its entries in an order the
\* runtime picks, and every entry whose value equals field.Value overwrites
\* SelectValue: the result is one field per label that can be visited last.
SelectOutcomes(field, smap) ==
    IF field.Type = "select" \/ field.Type = "checkbox"
    THEN IF field.Name \in DOMAIN smap
         THEN LET it == smap[field.Name]
                  hits == {l \in DOMAIN it : it[l] = field.Value}
              IN  IF hits = {}
                  THEN {[field EXCEPT !.Items = it]}
                  ELSE {[field EXCEPT !.Items = it, !.SelectValue = l] : l \in hits}
         ELSE {field}
    ELSE {field}

\* The error loop putting each new message in front of the earlier ones.
RECURSIVE AttachErrorsInFront(_, _, _)
AttachErrorsInFront(field, errs, i) ==
    IF i > Len(errs) THEN field
    ELSE IF errs[i].Field = field.Name
         THEN AttachErrorsInFront([field EXCEPT !.Errors = <<Error(errs[i])>> \o field.Errors],
                                  errs, i + 1)
         ELSE AttachErrorsInFront(field, errs, i + 1)

\* The error loop of the first copy: append ee.Error() for every matching failure.
RECURSIVE AttachErrors(_, _, _)
AttachErrors(field, errs, i) ==
    IF i > Len(errs) THEN field
    ELSE IF errs[i].Field = field.Name
         THEN AttachErrors([field EXCEPT !.Errors = Append(field.Errors, Error(errs[i]))],
                           errs, i + 1)
         ELSE AttachErrors(field, errs, i + 1)

\* f.Tpl.Execute(&sb, field): the template body either renders every field or
\* fails on every field.
Execute(tpl, field) == IF tpl = "broken" THEN "error" ELSE "ok"

Result(status, handed) ==
    [status |-> status, handed |-> handed,
     html |-> IF status = "ok" THEN handed ELSE <<>>]

\* The loop of Render (first copy): the possible results from field i on, with
\* `handed` the fields already given to the template.
RECURSIVE RenderLoop(_, _, _, _)
RenderLoop(fs, i, errs, handed) ==
    IF i > Len(fs) THEN {Result("ok", handed)}
    ELSE LET field == WithPrefix(fs[i], Prefix)
             dump == SkipScan(Skip, 1, field.Name)
         IN  IF dump = "panic" THEN {Result("panic", handed)}
             ELSE IF dump = "dump" THEN RenderLoop(fs, i + 1, errs, handed)
             ELSE UNION { LET out == AttachErrors(sel, errs, 1)
                          IN  IF Execute(Tpl, out) = "error"
                              THEN {Result("error", Append(handed, out))}
                              ELSE RenderLoop(fs, i + 1, errs, Append(handed, out))
                          : sel \in SelectOutcomes(field, selectMap) }

\* The loop of RenderField without its skip loop.
RECURSIVE RenderFieldLoopNoSkip(_, _, _, _, _)
RenderFieldLoopNoSkip(fs, i, field_name, errs, handed) ==
    IF i > Len(fs) THEN {Result("ok", handed)}
    ELSE IF fs[i].Name # field_name
    THEN RenderFieldLoopNoSkip(fs, i + 1, field_name, errs, handed)
    ELSE UNION { LET out == AttachErrors(sel, errs, 1)
                 IN  IF Execute(Tpl, out) = "error"
                     THEN {Result("error", Append(handed, out))}
                     ELSE RenderFieldLoopNoSkip(fs, i + 1, field_name, errs,
                                                Append(handed, out))
                 : sel \in SelectOutcomes(WithPrefix(fs[i], Prefix), selectMap) }

\* The loop of RenderField (first copy).
RECURSIVE RenderFieldLoop(_, _, _, _, _)
RenderFieldLoop(fs, i, field_name, errs, handed) ==
    IF i > Len(fs) THEN {Result("ok", handed)}
    ELSE IF fs[i].Name # field_name
    THEN RenderFieldLoop(fs, i + 1, field_name, errs, handed)
    ELSE LET field == WithPrefix(fs[i], Prefix)
             dump == SkipScan(Skip, 1, field.Name)
         IN  IF dump = "panic" THEN {Result("panic", handed)}
             ELSE IF dump = "dump"
             THEN RenderFieldLoop(fs, i + 1, field_name, errs, handed)
             ELSE UNION { LET out == AttachErrors(sel, errs, 1)
                          IN  IF Execute(Tpl, out) = "error"
                              THEN {Result("error", Append(handed, out))}
                              ELSE RenderFieldLoop(fs, i + 1, field_name, errs,
                                                   Append(handed, out))
                          : sel \in SelectOutcomes(field, selectMap) }

(***************************************************************************)
(* State                                                                   *)
(***************************************************************************)

NoCall ==
    [op |-> "none", v |-> "", name |-> <<>>, errs |-> <<>>,
     status |-> "ok", handed |-> <<>>, html |-> <<>>]

Call(op, v, name, errs, r) ==
    [op |-> op, v |-> v, name |-> name, errs |-> errs,
     status |-> r.status, handed |-> r.handed, html |-> r.html]

\* "errors" as New leaves it: not bound by the package.
NoBinding == [bound |-> FALSE, field |-> <<>>, errs |-> <<>>]

\* New: no skip entries, a nil selectMap, no prefix; the template is the one the
\* caller's file holds.
Init ==
    /\ Tpl \in {"base", "broken"}
    /\ tplFuncs = NoBinding
    /\ Skip = <<>>
    /\ selectMap = <<>>
    /\ Prefix = <<>>
    /\ ret = NoCall
    /\ skipCalls = <<>>
    /\ selectCalls = <<>>
    /\ ve = VErr(<<>>, <<>>, "", NilParam)
    /\ msg = "unset"

(***************************************************************************)
(* Operations                                                              *)
(***************************************************************************)

\* A fresh map made on every Select call.
MapPutFresh(smap, nm, mp) == [n \in {nm} |-> mp]

\* f.selectMap[nm] = mp
MapPut(smap, nm, mp) ==
    [n \in DOMAIN smap \cup {nm} |-> IF n = nm THEN mp ELSE smap[n]]

SkipField(skip) ==
    /\ Len(Skip) < MaxSkip
    /\ Skip' = Append(Skip, skip)
    /\ skipCalls' = skipCalls \o <<skip>>
    /\ ret' = NoCall
    /\ UNCHANGED <<Tpl, tplFuncs, selectMap, Prefix, selectCalls, ve, msg>>

Select(nm, mp) ==
    /\ selectMap' = MapPut(selectMap, nm, mp)
    /\ selectCalls' = (nm :> mp) @@ selectCalls
    /\ ret' = NoCall
    /\ UNCHANGED <<Tpl, tplFuncs, Skip, Prefix, skipCalls, ve, msg>>

\* The caller's assignment to the exported field Prefix.
SetPrefix(p) ==
    /\ Prefix' = p
    /\ ret' = NoCall
    /\ UNCHANGED <<Tpl, tplFuncs, Skip, selectMap, skipCalls, selectCalls, ve, msg>>

Render(v, errs) ==
    /\ \E r \in RenderLoop(fields(v), 1, errs, <<>>) :
            ret' = Call("Render", v, <<>>, errs, r)
    /\ UNCHANGED <<Tpl, tplFuncs, Skip, selectMap, Prefix, skipCalls, selectCalls, ve, msg>>

RenderField(v, field_name, errs) ==
    /\ \E r \in RenderFieldLoop(fields(v), 1, field_name, errs, <<>>) :
            ret' = Call("RenderField", v, field_name, errs, r)
    /\ UNCHANGED <<Tpl, tplFuncs, Skip, selectMap, Prefix, skipCalls, selectCalls, ve, msg>>

Next ==
    \/ \E skip \in SkipEntries : SkipField(skip)
    \/ \E nm \in SelectNames, mp \in SelectMaps : Select(nm, mp)
    \/ \E p \in Prefixes : SetPrefix(p)
    \/ \E v \in Records, errs \in ErrLists : Render(v, errs)
    \/ \E v \in Records, nm \in FieldNameArgs, errs \in ErrLists : RenderField(v, nm, errs)

Spec == Init /\ [][Next]_vars

(***************************************************************************)
(* The second copy of the package (lines 440-839)                          *)
(***************************************************************************)

\* f.Tpl.Funcs(template.FuncMap{"errors": func() []string {...}}): "errors" is
\* bound to a closure over the loop's field and the errors of this call.
BindErrors(field, errs) == [bound |-> TRUE, field |-> field.Name, errs |-> errs]

\* The error lists the second copy's Render is called with: its errs are error
\* values, of which fieldErrors keeps the field name and the message.
ErrLists2 == { <<>>, <<EmailInvalid>> }

Result2(status, handed, funcs) ==
    [status |-> status, handed |-> handed,
     html |-> IF status = "ok" THEN handed ELSE <<>>, funcs |-> funcs]

\* The loop of Render (second copy): field.Errors is left alone, and "errors" is
\* bound anew before every Execute.  `funcs` is the function set so far.
RECURSIVE RenderLoop2(_, _, _, _, _)
RenderLoop2(fs, i, errs, handed, funcs) ==
    IF i > Len(fs) THEN {Result2("ok", handed, funcs)}
    ELSE LET field == WithPrefix(fs[i], Prefix)
             dump == SkipScan(Skip, 1, field.Name)
         IN  IF dump = "panic" THEN {Result2("panic", handed, funcs)}
             ELSE IF dump = "dump" THEN RenderLoop2(fs, i + 1, errs, handed, funcs)
             ELSE UNION { IF Execute(Tpl, sel) = "error"
                          THEN {Result2("error", Append(handed, sel), BindErrors(sel, errs))}
                          ELSE RenderLoop2(fs, i + 1, errs, Append(handed, sel),
                                           BindErrors(sel, errs))
                          : sel \in SelectOutcomes(field, selectMap) }

\* The loop of RenderField (second copy).
RECURSIVE RenderFieldLoop2(_, _, _, _, _, _)
RenderFieldLoop2(fs, i, field_name, errs, handed, funcs) ==
    IF i > Len(fs) THEN {Result2("ok", handed, funcs)}
    ELSE IF fs[i].Name # field_name
    THEN RenderFieldLoop2(fs, i + 1, field_name, errs, handed, funcs)
    ELSE LET field == WithPrefix(fs[i], Prefix)
             dump == SkipScan(Skip, 1, field.Name)
         IN  IF dump = "panic" THEN {Result2("panic", handed, funcs)}
             ELSE IF dump = "dump"
             THEN RenderFieldLoop2(fs, i + 1, field_name, errs, handed, funcs)
             ELSE UNION { IF Execute(Tpl, sel) = "error"
                          THEN {Result2("error", Append(handed, sel), BindErrors(sel, errs))}
                          ELSE RenderFieldLoop2(fs, i + 1, field_name, errs,
                                                Append(handed, sel), BindErrors(sel, errs))
                          : sel \in SelectOutcomes(field, selectMap) }

Render2(v, errs) ==
    /\ \E r \in RenderLoop2(fields(v), 1, errs, <<>>, tplFuncs) :
            /\ ret' = Call("Render", v, <<>>, errs, r)
            /\ tplFuncs' = r.funcs
    /\ UNCHANGED <<Tpl, Skip, selectMap, Prefix, skipCalls, selectCalls, ve, msg>>

RenderField2(v, field_name, errs) ==
    /\ \E r \in RenderFieldLoop2(fields(v), 1, field_name, errs, <<>>, tplFuncs) :
            /\ ret' = Call("RenderField", v, field_name, errs, r)
            /\ tplFuncs' = r.funcs
    /\ UNCHANGED <<Tpl, Skip, selectMap, Prefix, skipCalls, selectCalls, ve, msg>>

Next2 ==
    \/ \E skip \in SkipEntries : SkipField(skip)
    \/ \E nm \in SelectNames, mp \in SelectMaps : Select(nm, mp)
    \/ \E p \in Prefixes : SetPrefix(p)
    \/ \E v \in Records, errs \in ErrLists2 : Render2(v, errs)
    \/ \E v \in Records, nm \in FieldNameArgs, errs \in ErrLists2 : RenderField2(v, nm, errs)

Spec2 == Init /\ [][Next2]_vars

(***************************************************************************)
(* ValidationError.Error applied to the values a caller can build          *)
(***************************************************************************)

Types == {TypeEmail, TypeAlpha, TypeLen, TypeRequired, TypeNotBlank, TypeE164, <<>>}
Overrides == {"", "Pick a state"}
Params == {NilParam, StrParam(""), StrParam("2"), StrParam("10")}

ValidationErrors ==
    {VErr(Email, t, o, p) : t \in Types, o \in Overrides, p \in Params}

InitErr ==
    /\ Tpl = "base"
    /\ tplFuncs = NoBinding
    /\ Skip = <<>>
    /\ selectMap = <<>>
    /\ Prefix = <<>>
    /\ ret = NoCall
    /\ skipCalls = <<>>
    /\ selectCalls = <<>>
    /\ ve \in ValidationErrors
    /\ msg = "unset"

ErrorCall ==
    /\ msg' = Error(ve)
    /\ UNCHANGED <<Tpl, tplFuncs, Skip, selectMap, Prefix, ret, skipCalls, selectCalls, ve>>

NextErr == ErrorCall

SpecErr == InitErr /\ [][NextErr]_vars

(***************************************************************************)
(* Form.Validate                                                           *)
(***************************************************************************)

\* Bound on the number of field errors the validator reports for one holder.
MaxFieldErrs == 3

\* A validator.FieldError: what Field(), Tag(), Value() and Param() return.
FieldErr(field, tag, value, param) ==
    [Field |-> field, Tag |-> tag, Value |-> value, Param |-> param]

\* The field errors the validator reports.
FieldErrs ==
    { FieldErr(Email, TypeEmail, StrParam("bob"), ""),
      FieldErr(Email, TypeRequired, StrParam(""), ""),
      FieldErr(State, TypeLen, StrParam("C"), "2"),
      FieldErr(State, TypeAlpha, StrParam("C4"), ""),
      FieldErr(Zip, TypeRequired, NilParam, "") }

\* The holders Validate is called with: a value that is no struct, or a struct
\* whose members break the rules listed (none when the list is empty).
NonStruct == [struct |-> FALSE, broken |-> <<>>]
Holders ==
    {NonStruct}
    \cup { [struct |-> TRUE, broken |-> b] :
             b \in UNION { [1..n -> FieldErrs] : n \in 0..MaxFieldErrs } }

\* f.Validator.Struct(holder): *InvalidValidationError for a value that is no
\* struct, nil when no rule is broken, ValidationErrors (never empty) otherwise.
Struct(holder) ==
    IF ~holder.struct THEN [kind |-> "invalid", errs |-> <<>>]
    ELSE IF holder.broken = <<>> THEN [kind |-> "nil", errs |-> <<>>]
    ELSE [kind |-> "failed", errs |-> holder.broken]

\* fmt.Sprint(err.Value()) for an interface{} holding a string or nil
Sprint(value) == IF value.isNil THEN "<nil>" ELSE value.s

\* ValidationError{Field: err.Field(), Value: fmt.Sprint(err.Value()),
\*                 Type: err.Tag(), Param: err.Param()}
FromFieldErr(err) ==
    [Field |-> err.Field, Value |-> Sprint(err.Value), Type |-> err.Tag,
     Override |-> "", Param |-> StrParam(err.Param)]

\* Validate losing the field errors of a failed validation.
ValidateResultNoErrors(ve_) ==
    IF ve_.kind # "nil" THEN [ok |-> FALSE, errs |-> <<>>]
    ELSE [ok |-> TRUE, errs |-> <<>>]

\* The body of Validate after ve := f.Validator.Struct(holder): the (bool,
\* []ValidationError) it returns.
ValidateResult(ve_) ==
    IF ve_.kind # "nil"
    THEN IF ve_.kind = "invalid"
         THEN [ok |-> FALSE, errs |-> <<>>]
         ELSE [ok |-> FALSE,
               errs |-> [i \in 1..Len(ve_.errs) |-> FromFieldErr(ve_.errs[i])]]
    ELSE [ok |-> TRUE, errs |-> <<>>]

\* Validate leaves the form alone; ret records the holder, what the validator
\* made of it and what Validate returned.
Validate(holder) ==
    /\ ret' = [op |-> "Validate", holder |-> holder, lib |-> Struct(holder).kind,
               ok |-> ValidateResult(Struct(holder)).ok,
               errs |-> ValidateResult(Struct(holder)).errs]
    /\ UNCHANGED <<Tpl, tplFuncs, Skip, selectMap, Prefix, skipCalls, selectCalls, ve, msg>>

NextValidate == \E holder \in Holders : Validate(holder)

SpecValidate == Init /\ [][NextValidate]_vars

(***************************************************************************)
(* Properties                                                              *)
(***************************************************************************)

NamesOf(fs) == [i \in 1..Len(fs) |-> fs[i].Name]

IsSelectType(type) == type = "select" \/ type = "checkbox"

\* The skip list holds "Address." and nothing else.
OnlyAddressDot == Skip # <<>> /\ \A i \in 1..Len(Skip) : Skip[i] = AddressDot

\* C1 (as amended): after SkipField("Address."), a Render that returns without
\* error hands over exactly the fields whose Name does not contain "Address."
\* anywhere, in extraction order.
C1_RemovesContaining ==
    (ret.op = "Render" /\ ret.status = "ok" /\ OnlyAddressDot)
        => NamesOf(ret.handed)
             = NamesOf(SelectSeq(fields(ret.v), LAMBDA f : ~Contains(f.Name, AddressDot)))

\* C1 (as claimed): after SkipField("Address."), Render removes exactly the
\* fields whose Name starts with "Address." and keeps every other field.
C1_RemovesPrefixed ==
    (ret.op = "Render" /\ ret.status = "ok" /\ OnlyAddressDot)
        => NamesOf(ret.handed)
             = NamesOf(SelectSeq(fields(ret.v), LAMBDA f : ~HasPrefix(f.Name, AddressDot)))

C1_Witness ==
    /\ ret.op = "Render" /\ ret.status = "ok" /\ ret.v = "customer"
    /\ OnlyAddressDot
    /\ NamesOf(ret.handed) = <<Email, State>>

\* A field handed over by the latest Render that is the select/checkbox field
\* State with Value "CA".
StateCA(h) == h.Name = State /\ IsSelectType(h.Type) /\ h.Value = "CA"

Registered(nm, mp) == nm \in DOMAIN selectMap /\ selectMap[nm] = mp

\* C2 (as amended): with {"California":"CA","New York":"NY"} registered for
\* State, Render hands over the field State of Value "CA" with SelectValue
\* "California".
C2_LabelOfValue ==
    (ret.op = "Render" /\ Registered(State, ByLabel))
        => \A i \in 1..Len(ret.handed) :
              StateCA(ret.handed[i]) => ret.handed[i].SelectValue = "California"

\* C2 (as claimed): with {"CA":"California","NY":"New York"} registered for
\* State, Render hands over the field State of Value "CA" with SelectValue
\* "California".
C2_ValueOfKey ==
    (ret.op = "Render" /\ Registered(State, ByCode))
        => \A i \in 1..Len(ret.handed) :
              StateCA(ret.handed[i]) => ret.handed[i].SelectValue = "California"

C2_Witness ==
    /\ ret.op = "Render" /\ Registered(State, ByLabel)
    /\ \E i \in 1..Len(ret.handed) :
          StateCA(ret.handed[i]) /\ ret.handed[i].SelectValue = "California"

\* C3: whatever was registered, the skip, select and error steps of Render and
\* RenderField complete: no call ends in a run-time panic.
C3_NoPanic == ret.status # "panic"

\* The messages of the failures of errs that name `name`, in the order of errs.
MessagesFor(name, errs) ==
    LET hit == SelectSeq(errs, LAMBDA e : e.Field = name)
    IN  [i \in 1..Len(hit) |-> Error(hit[i])]

\* C4 (as amended): Render hands every field over with Prefix set to
\* Form.Prefix and with the extracted, un-prefixed Name and ID; skip matching,
\* the select-map lookup and error matching all use that un-prefixed Name.
C4_PrefixBesideName ==
    (ret.op = "Render" /\ Prefix # <<>>)
        => /\ \A i \in 1..Len(ret.handed) :
                LET h == ret.handed[i] IN
                /\ h.Prefix = Prefix
                /\ \E j \in 1..Len(fields(ret.v)) :
                      /\ h.Name = fields(ret.v)[j].Name
                      /\ h.ID = fields(ret.v)[j].ID
                /\ \A k \in 1..Len(Skip) : Skip[k] # h.Name
                /\ (IsSelectType(h.Type) /\ h.Name \in DOMAIN selectMap)
                      => h.Items = selectMap[h.Name]
                /\ h.Errors = MessagesFor(h.Name, ret.errs)
           /\ ret.status = "ok"
                => \A j \in 1..Len(fields(ret.v)) :
                      (\E k \in 1..Len(Skip) : Skip[k] = fields(ret.v)[j].Name)
                         => \A i \in 1..Len(ret.handed) :
                               ret.handed[i].Name # fields(ret.v)[j].Name

\* C4 (as claimed): with a non-empty Form.Prefix, every field Render hands over
\* has Name and ID equal to the prefix followed by the extracted Name and ID.
C4_NameRewritten ==
    (ret.op = "Render" /\ Prefix # <<>>)
        => \A i \in 1..Len(ret.handed) :
              \E j \in 1..Len(fields(ret.v)) :
                 /\ ret.handed[i].Name = Prefix \o fields(ret.v)[j].Name
                 /\ ret.handed[i].ID = Prefix \o fields(ret.v)[j].ID

C4_Witness ==
    /\ ret.op = "Render" /\ ret.status = "ok" /\ Prefix # <<>>
    /\ \E k \in 1..Len(Skip) : Skip[k] = Email
    /\ \E i \in 1..Len(ret.handed) :
          /\ ret.handed[i].Prefix = Prefix
          /\ ret.handed[i].Name = State
          /\ ret.handed[i].Items # <<>>
          /\ ret.handed[i].Errors # <<>>

\* C5: every field handed over carries as Errors exactly the messages of the
\* reported failures whose Field equals its Name, in the order reported; a
\* failure naming no field, or another field, adds nothing to it.
C5_ErrorsOfOwnName ==
    ret.op \in {"Render", "RenderField"}
        => \A i \in 1..Len(ret.handed) :
              ret.handed[i].Errors = MessagesFor(ret.handed[i].Name, ret.errs)

C5_Witness ==
    /\ ret.op = "Render" /\ ret.status = "ok" /\ ret.v = "customer"
    /\ Len(ret.errs) = 5
    /\ ret.handed[1].Name = Email
    /\ ret.handed[1].Errors = <<"Invalid Email", "Required">>
    /\ ret.handed[2].Name = State
    /\ ret.handed[2].Errors = <<"Invalid Length,needs: 2", "Pick a state">>
    /\ ret.handed[3].Errors = <<>>

\* C6: Form.Skip is the list of every entry passed to SkipField, in call order;
\* selectMap holds under each name the map of the latest Select call for it; a
\* Select call changes neither the other names' maps nor the skip list.
C6_RegistrationAdditive ==
    /\ Skip = skipCalls
    /\ DOMAIN selectMap = DOMAIN selectCalls
    /\ \A nm \in DOMAIN selectMap : selectMap[nm] = selectCalls[nm]

C6_Witness ==
    /\ Len(Skip) = 2 /\ Skip[1] = Email /\ Skip[2] = AddressDot
    /\ Registered(State, ByLabel)
    /\ Registered(Email, TwoLabels)
    /\ ret.op = "Render"

\* C7: a call of Render or RenderField leaves the skip list, the select maps,
\* the prefix and the template with its function set as they were, whether it
\* returns HTML or an error.
C7_ConfigurationUnchanged ==
    [][ ret'.op \in {"Render", "RenderField"}
          => /\ Skip' = Skip
             /\ selectMap' = selectMap
             /\ Prefix' = Prefix
             /\ Tpl' = Tpl
             /\ tplFuncs' = tplFuncs ]_vars

\* An entry of the skip list matches name: it equals it, or it ends in "." and
\* name contains it.
SkipMatches(name) ==
    \E k \in 1..Len(Skip) :
        \/ Skip[k] = name
        \/ Skip[k] # <<>> /\ Skip[k][Len(Skip[k])] = "." /\ Contains(name, Skip[k])

\* C8: a field Render hands over has Items equal to the registered map exactly
\* when its Type is select or checkbox and a map is registered under its Name,
\* and then SelectValue is a label of that map mapped to the field's Value, or
\* empty when there is none; every other field has no Items and no SelectValue,
\* and no field is dropped for lack of a map.
C8_SelectEnrichment ==
    ret.op = "Render"
        => /\ \A i \in 1..Len(ret.handed) :
                LET h == ret.handed[i] IN
                IF IsSelectType(h.Type) /\ h.Name \in DOMAIN selectMap
                THEN LET it == selectMap[h.Name]
                         labels == {l \in DOMAIN it : it[l] = h.Value}
                     IN  /\ h.Items = it
                         /\ labels = {} => h.SelectValue = ""
                         /\ labels # {} => h.SelectValue \in labels
                ELSE h.Items = <<>> /\ h.SelectValue = ""
           /\ ret.status = "ok"
                => NamesOf(ret.handed)
                     = NamesOf(SelectSeq(fields(ret.v), LAMBDA f : ~SkipMatches(f.Name)))

C8_Witness ==
    /\ ret.op = "Render" /\ ret.status = "ok" /\ ret.v = "signup"
    /\ Registered(State, ByLabel) /\ Registered(Email, ByLabel)
    /\ Len(ret.handed) = 3
    /\ ret.handed[1].Items = ByLabel /\ ret.handed[1].SelectValue = "New York"
    /\ ret.handed[2].Name = Email /\ ret.handed[2].Items = <<>>
    /\ ret.handed[3].Items = <<>> /\ ret.handed[3].SelectValue = ""

\* C9: two Render calls with the same record, skip list, select maps, prefix
\* and error list hand over identical field sequences.
C9_SameInputsSameFields ==
    [][ ( /\ ret.op = "Render" /\ ret'.op = "Render"
          /\ ret'.v = ret.v /\ ret'.errs = ret.errs
          /\ Skip' = Skip /\ selectMap' = selectMap /\ Prefix' = Prefix )
          => ret'.handed = ret.handed ]_vars

\* The symbols of t with the first letter of every word in upper case.
Capitalized(t) ==
    [i \in 1..Len(t) |->
        IF i = 1 \/ t[i - 1] = " " THEN ToUpper(t[i]) ELSE t[i]]

\* C10: Error returns Override whenever it is non-empty, whatever the Type;
\* otherwise "Invalid Email" for "email", "Letters Only" for "alpha",
\* "Invalid Length,needs: " followed by Param (as %s prints it) for "len", and
\* the capitalized Type for every other kind ("required" gives "Required").
C10_ErrorMessage ==
    msg # "unset"
        => IF ve.Override # "" THEN msg = ve.Override
           ELSE /\ Flat(ve.Type) = "email" => msg = "Invalid Email"
                /\ Flat(ve.Type) = "alpha" => msg = "Letters Only"
                /\ Flat(ve.Type) = "len"
                      => msg = "Invalid Length,needs: "
                               \o (IF ve.Param.isNil THEN "%!s(<nil>)" ELSE ve.Param.s)
                /\ Flat(ve.Type) \notin {"email", "alpha", "len"}
                      => msg = Flat(Capitalized(ve.Type))
                /\ Flat(ve.Type) = "required" => msg = "Required"
                /\ Flat(ve.Type) = "e164" => msg = "E164"
                /\ Flat(ve.Type) = "" => msg = ""

C10_Witness ==
    \/ ve.Type = TypeRequired /\ ve.Override = "" /\ msg = "Required"
    \/ ve.Type = TypeEmail /\ ve.Override = "Pick a state" /\ msg = "Pick a state"

NoDotEntries ==
    \A k \in 1..Len(Skip) : Skip[k] = <<>> \/ Skip[k][Len(Skip[k])] # "."

\* The names of the fields of v that equal no entry of the skip list.
NotListed(v) ==
    NamesOf(SelectSeq(fields(v), LAMBDA f : \A k \in 1..Len(Skip) : Skip[k] # f.Name))

\* C12: with skip entries that do not end in ".", Render removes the fields
\* whose Name equals an entry and no other field (EmailConfirm stays when Email
\* is skipped), and renders the remaining fields in extraction order.
C12_ExactEntriesOnly ==
    (ret.op = "Render" /\ ret.status # "error" /\ Skip # <<>> /\ NoDotEntries)
        => /\ ret.status = "ok"
           /\ NamesOf(ret.handed) = NotListed(ret.v)

\* C12, for entries that are not empty either: the statement of C12 holds.
C12_NonEmptyExactEntries ==
    ( /\ ret.op = "Render" /\ ret.status # "error" /\ Skip # <<>> /\ NoDotEntries
      /\ \A k \in 1..Len(Skip) : Skip[k] # <<>> )
        => /\ ret.status = "ok"
           /\ NamesOf(ret.handed) = NotListed(ret.v)

C12_NonEmptyWitness ==
    /\ ret.op = "Render" /\ ret.status = "ok" /\ ret.v = "signup"
    /\ Skip = <<Email>>
    /\ NamesOf(ret.handed) = <<State, EmailConfirm>>

\* The fields of fs named name.
Restrict(fs, name) == SelectSeq(fs, LAMBDA f : f.Name = name)

====
